---- MODULE Spec2Model ----
(***************************************************************************)
(* Model of the daily planner of src/app.py: the clock-time arithmetic     *)
(* (parse_time, time_to_minutes, minutes_to_time), the remaining-time      *)
(* computation (calculate_remaining_time) and the time-block allocator     *)
(* (allocate_time_slots), run by the GET branch of index() on the stored   *)
(* task list and preference record.                                        *)
(*                                                                         *)
(* Strings are sequences of one-character strings, so that formatting and  *)
(* parsing are computed, not assumed.  A time object is a record           *)
(* [hour, minute].                                                         *)
(***************************************************************************)
EXTENDS Integers, Sequences, FiniteSets, TLC

VARIABLES preferences, tasks, pc, remaining_time, time_blocks, sorted_tasks,
          task_idx, duration, scan, schedule, fixed_schedule

vars == <<preferences, tasks, pc, remaining_time, time_blocks, sorted_tasks,
          task_idx, duration, scan, schedule, fixed_schedule>>

(***************************************************************************)
(* Bounds of the model.                                                    *)
(***************************************************************************)
MaxTasks == 2

\* Clock times each preference is drawn from.  The ranges overlap, so that
\* the records include consistent ones (three blocks of 30, 45 and 45
\* minutes among them, and blocks of zero length) and inconsistent ones
\* (work_start < wake_up, work_end < work_start, bedtime < work_end).
T0900 == <<"0","9",":","0","0">>

T0930 == <<"0","9",":","3","0">>

T1015 == <<"1","0",":","1","5">>

T1100 == <<"1","1",":","0","0">>

WakeUpTimes == {T0900, T0930}

WorkStartTimes == {T0900, T0930, T1015}

WorkEndTimes == {T0930, T1015, T1100}

Bedtimes == {T1015, T1100}

\* Task durations in minutes (positive, as the data model requires).
Durations == {20, 100}

Priorities == {"Critical", "High", "Medium", "Low"}

(***************************************************************************)
(* Strings and numbers.                                                    *)
(***************************************************************************)
DigitChars == <<"0","1","2","3","4","5","6","7","8","9">>

IsDigit(c) == \E d \in 1..10 : DigitChars[d] = c

DigitVal(c) == (CHOOSE d \in 1..10 : DigitChars[d] = c) - 1

RECURSIVE Decimal(_)
\* decimal digits of a natural number, no padding
Decimal(n) == IF n < 10 THEN <<DigitChars[n + 1]>>
              ELSE Decimal(n \div 10) \o <<DigitChars[(n % 10) + 1]>>

\* Python's format spec 02d: sign, then digits, zero-padded to a total
\* width of two characters (the sign counts towards the width).
Format02d(n) ==
  IF n >= 0
    THEN IF n < 10 THEN <<"0">> \o Decimal(n) ELSE Decimal(n)
    ELSE <<"-">> \o Decimal(0 - n)

\* value of a string of one or two digits
NumVal(s) == IF Len(s) = 1 THEN DigitVal(s[1])
             ELSE 10 * DigitVal(s[1]) + DigitVal(s[2])

IsNum(s) == /\ Len(s) \in {1, 2}
            /\ \A k \in 1..Len(s) : IsDigit(s[k])

\* position of the first ":" of s, 0 when there is none
ColonPos(s) == IF \E k \in 1..Len(s) : s[k] = ":"
                 THEN CHOOSE k \in 1..Len(s) :
                        s[k] = ":" /\ \A l \in 1..(k - 1) : s[l] # ":"
                 ELSE 0

\* the value parse_time gives when strptime raises ValueError
FormatError == [hour |-> -1, minute |-> -1]

\* datetime.strptime(time_str, "%H:%M").time(): hour of one or two digits
\* in 0..23, a colon, minute of one or two digits in 0..59.
parse_time(time_str) ==
  LET c == ColonPos(time_str)
      h == SubSeq(time_str, 1, c - 1)
      m == SubSeq(time_str, c + 1, Len(time_str))
  IN IF /\ c > 0
        /\ IsNum(h) /\ NumVal(h) <= 23
        /\ IsNum(m) /\ NumVal(m) <= 59
       THEN [hour |-> NumVal(h), minute |-> NumVal(m)]
       ELSE FormatError

time_to_minutes(t) == t.hour * 60 + t.minute

\* minutes_to_time without the % 60 of line 35
MinutesToTimeNoModulo(m) ==
  LET hours == m \div 60
      minutes == m
  IN Format02d(hours) \o <<":">> \o Format02d(minutes)

\* Python's // and % are floor division and the non-negative remainder,
\* as \div and % are in TLA+.
minutes_to_time(m) ==
  LET hours == m \div 60
      minutes == m % 60
  IN Format02d(hours) \o <<":">> \o Format02d(minutes)

calculate_remaining_time(prefs) ==
  LET wake_up == parse_time(prefs.wake_up_time)
      work_start == parse_time(prefs.work_start)
      work_end == parse_time(prefs.work_end)
      bedtime == parse_time(prefs.bedtime)
      wake_up_min == time_to_minutes(wake_up)
      bedtime_min == time_to_minutes(bedtime)
      total_day_minutes == bedtime_min - wake_up_min
      used_minutes == time_to_minutes(work_start) - wake_up_min
                      + time_to_minutes(work_end) - time_to_minutes(work_start)
      remaining_minutes == total_day_minutes - used_minutes
  IN minutes_to_time(remaining_minutes)

(***************************************************************************)
(* allocate_time_slots: blocks, ordering of the tasks.                     *)
(***************************************************************************)
Part1Suffix == <<" ", "(", "P", "a", "r", "t", " ", "1", ")">>

\* priority_order with the ranks reversed
PriorityOrderLowFirst(p) ==
  CASE p = "Critical" -> 3
    [] p = "High" -> 2
    [] p = "Medium" -> 1
    [] p = "Low" -> 0

\* line 76
priority_order(p) ==
  CASE p = "Critical" -> 0
    [] p = "High" -> 1
    [] p = "Medium" -> 2
    [] p = "Low" -> 3

NewBlock(start, end, type) ==
  [start |-> start, end |-> end, type |-> type,
   available |-> time_to_minutes(end) - time_to_minutes(start),
   used |-> 0,
   tasks |-> <<>>]

\* lines 55-73: the three blocks, in construction order
MakeTimeBlocks(prefs) ==
  LET wake_up == parse_time(prefs.wake_up_time)
      work_start == parse_time(prefs.work_start)
      work_end == parse_time(prefs.work_end)
      bedtime == parse_time(prefs.bedtime)
  IN << NewBlock(wake_up, work_start, "morning"),
        NewBlock(work_start, work_end, "work"),
        NewBlock(work_end, bedtime, "evening") >>

\* [time_blocks[0], time_blocks[2], time_blocks[1]]: morning, evening, work
ScanOrder == <<1, 3, 2>>

RECURSIVE InsertTiesFirst(_, _, _)
\* InsertStable with <= for <: x goes before the indices of equal key
InsertTiesFirst(order, keys, x) ==
  IF order = <<>> THEN <<x>>
  ELSE LET n == Len(order)
       IN IF keys[x] <= keys[order[n]]
            THEN Append(InsertTiesFirst(SubSeq(order, 1, n - 1), keys, x),
                        order[n])
            ELSE Append(order, x)

RECURSIVE InsertStable(_, _, _)
\* the index x goes after every index whose key is not greater than its own
InsertStable(order, keys, x) ==
  IF order = <<>> THEN <<x>>
  ELSE LET n == Len(order)
       IN IF keys[x] < keys[order[n]]
            THEN Append(InsertStable(SubSeq(order, 1, n - 1), keys, x), order[n])
            ELSE Append(order, x)

RECURSIVE SortedOrder(_, _)
\* the indices 1..n in ascending order of their keys, equal keys in
\* ascending order of index
SortedOrder(keys, n) ==
  IF n = 0 THEN <<>>
  ELSE InsertStable(SortedOrder(keys, n - 1), keys, n)

\* sorted() and list.sort(): a stable ascending sort of s, keys[k] being the
\* sort key of s[k]
StableSort(s, keys) ==
  LET order == SortedOrder(keys, Len(s))
  IN [k \in 1..Len(s) |-> s[order[k]]]

RECURSIVE IncompleteTasks(_)
\* [t for t in tasks if not t["completed"]]
IncompleteTasks(ts) ==
  IF ts = <<>> THEN <<>>
  ELSE LET r == IncompleteTasks(SubSeq(ts, 1, Len(ts) - 1))
       IN IF ~ts[Len(ts)].completed THEN Append(r, ts[Len(ts)]) ELSE r

\* lines 76-78
SortTasks(ts) ==
  LET pending == IncompleteTasks(ts)
  IN StableSort(pending,
                [k \in 1..Len(pending) |-> priority_order(pending[k].priority)])

Remaining(block) == block.available - block.used

Min(a, b) == IF a <= b THEN a ELSE b

\* FirstFit scanning the blocks in construction order: morning, work, evening
FirstFitConstructionOrder(blocks, d) ==
  IF \E b \in 1..3 : Remaining(blocks[b]) >= d
    THEN CHOOSE b \in 1..3 :
           /\ Remaining(blocks[b]) >= d
           /\ \A l \in 1..(b - 1) : Remaining(blocks[l]) < d
    ELSE 0

\* lines 86-92: the first block of the scan order that holds the whole task,
\* 0 when there is none
FirstFit(blocks, d) ==
  IF \E k \in 1..3 : Remaining(blocks[ScanOrder[k]]) >= d
    THEN ScanOrder[CHOOSE k \in 1..3 :
           /\ Remaining(blocks[ScanOrder[k]]) >= d
           /\ \A l \in 1..(k - 1) : Remaining(blocks[ScanOrder[l]]) < d]
    ELSE 0

\* AddTask without line 89: the task is recorded, used is not advanced
AddTaskUsedUnchanged(block, task, d) ==
  [block EXCEPT !.tasks = Append(@, task)]

\* lines 89-90
AddTask(block, task, d) ==
  [block EXCEPT !.used = @ + d, !.tasks = Append(@, task)]

\* PartialDuration without the min of line 99
PartialDurationUncapped(remaining, d) == d

\* line 99
PartialDuration(remaining, d) == Min(remaining, d)

\* BreakScan with the break of line 107 one level out: the scan stops after
\* the first fragment
BreakAfterFirstFragment(remaining, left) == remaining > 0

\* lines 98, 106-107: the scan stops once a fragment leaves nothing outstanding
BreakScan(remaining, left) == remaining > 0 /\ left <= 0

\* PartialTask without line 102: the fragment keeps the task's full duration
PartialTaskFullDuration(task, partial_duration) ==
  [task EXCEPT !.description = task.description \o Part1Suffix]

\* lines 101-103
PartialTask(task, partial_duration) ==
  [task EXCEPT !.duration = partial_duration,
               !.description = task.description \o Part1Suffix]

(***************************************************************************)
(* Schedule assembly.                                                      *)
(***************************************************************************)
FixedEntry(time, label, id) ==
  [time |-> time, task |-> label, priority |-> "Fixed", duration |-> 0,
   id |-> id, completed |-> FALSE]

\* lines 113-146
FixedSchedule(prefs) ==
  << FixedEntry(prefs.wake_up_time, "Wake Up", -1),
     FixedEntry(prefs.work_start, "Work Time", -2),
     FixedEntry(prefs.work_end, "Personal Time", -3),
     FixedEntry(prefs.bedtime, "Go to Bed", -4) >>

RECURSIVE SumDurations(_)
SumDurations(ts) ==
  IF ts = <<>> THEN 0
  ELSE SumDurations(SubSeq(ts, 1, Len(ts) - 1)) + ts[Len(ts)].duration

\* BlockEntries without line 163: every entry at the block's start
BlockEntriesAtBlockStart(block) ==
  [k \in 1..Len(block.tasks) |->
     LET task == block.tasks[k]
         current_time == time_to_minutes(block.start)
     IN [time |-> minutes_to_time(current_time),
         task |-> task.description,
         priority |-> task.priority,
         duration |-> task.duration,
         id |-> task.id,
         completed |-> task.completed]]

\* lines 152-163: the entries of one block, laid out from the block's start
BlockEntries(block) ==
  [k \in 1..Len(block.tasks) |->
     LET task == block.tasks[k]
         current_time == time_to_minutes(block.start)
                         + SumDurations(SubSeq(block.tasks, 1, k - 1))
     IN [time |-> minutes_to_time(current_time),
         task |-> task.description,
         priority |-> task.priority,
         duration |-> task.duration,
         id |-> task.id,
         completed |-> task.completed]]

\* lines 148-163: the fixed entries, then the blocks in construction order
Assemble(fixed, blocks) ==
  fixed \o BlockEntries(blocks[1]) \o BlockEntries(blocks[2])
        \o BlockEntries(blocks[3])

\* line 166 raises ValueError when an entry's time is not a clock time
SortRaises(s) == \E k \in 1..Len(s) : parse_time(s[k].time) = FormatError

\* the key of line 166: time objects compare by hour, then minute, which is
\* the order of hour * 60 + minute
SortKey(x) == time_to_minutes(parse_time(x.time))

\* line 166
SortSchedule(s) == StableSort(s, [k \in 1..Len(s) |-> SortKey(s[k])])

(***************************************************************************)
(* Inputs: the stored task list and preference record.                     *)
(***************************************************************************)
Descriptions == [p \in 1..(MaxTasks + 1) |-> <<"T", DigitChars[p + 1]>>]

\* Pending tasks of every priority and duration.  A completed task is
\* dropped by line 77 before its priority or duration is read, so one
\* completed shape stands for all of them.
TaskChoices ==
  [priority : Priorities, duration : Durations, completed : {FALSE}]
    \cup [priority : {"Critical"}, duration : {100}, completed : {TRUE}]

\* a task list: ids are unique and positive (here the position in the list)
TaskLists ==
  UNION { { [p \in 1..n |->
               [id |-> p, description |-> Descriptions[p],
                priority |-> c[p].priority, duration |-> c[p].duration,
                completed |-> c[p].completed]] : c \in [1..n -> TaskChoices] }
          : n \in 0..MaxTasks }

PreferenceRecords ==
  [wake_up_time : WakeUpTimes, bedtime : Bedtimes,
   work_start : WorkStartTimes, work_end : WorkEndTimes]

Unset == <<>>

Init ==
  /\ preferences \in PreferenceRecords
  /\ tasks \in TaskLists
  /\ pc = "index"
  /\ remaining_time = Unset
  /\ time_blocks = <<>>
  /\ sorted_tasks = <<>>
  /\ task_idx = 0
  /\ duration = 0
  /\ scan = 0
  /\ schedule = <<>>
  /\ fixed_schedule = <<>>

(***************************************************************************)
(* Steps of the GET branch of index().                                     *)
(***************************************************************************)
\* line 192
CalculateRemainingTime ==
  /\ pc = "index"
  /\ remaining_time' = calculate_remaining_time(preferences)
  /\ pc' = "allocate"
  /\ UNCHANGED <<preferences, tasks, time_blocks, sorted_tasks, task_idx,
                 duration, scan, schedule, fixed_schedule>>

\* lines 55-78: blocks built, tasks filtered and sorted
BeginAllocate ==
  /\ pc = "allocate"
  /\ time_blocks' = MakeTimeBlocks(preferences)
  /\ sorted_tasks' = SortTasks(tasks)
  /\ task_idx' = 1
  /\ pc' = "place"
  /\ UNCHANGED <<preferences, tasks, remaining_time, duration, scan,
                 schedule, fixed_schedule>>

\* lines 81-92: the task fits some block whole
PlaceWhole ==
  /\ pc = "place"
  /\ task_idx <= Len(sorted_tasks)
  /\ LET task == sorted_tasks[task_idx]
         b == FirstFit(time_blocks, task.duration)
     IN /\ b # 0
        /\ time_blocks' = [time_blocks EXCEPT
                             ![b] = AddTask(@, task, task.duration)]
  /\ task_idx' = task_idx + 1
  /\ UNCHANGED <<preferences, tasks, pc, remaining_time, sorted_tasks,
                 duration, scan, schedule, fixed_schedule>>

\* lines 81-96: no block holds the task whole, the split scan starts
BeginSplit ==
  /\ pc = "place"
  /\ task_idx <= Len(sorted_tasks)
  /\ FirstFit(time_blocks, sorted_tasks[task_idx].duration) = 0
  /\ duration' = sorted_tasks[task_idx].duration
  /\ scan' = 1
  /\ pc' = "split"
  /\ UNCHANGED <<preferences, tasks, remaining_time, time_blocks,
                 sorted_tasks, task_idx, schedule, fixed_schedule>>

\* lines 96-107: one iteration of the split scan
SplitStep ==
  /\ pc = "split"
  /\ LET task == sorted_tasks[task_idx]
         b == ScanOrder[scan]
         remaining == Remaining(time_blocks[b])
         partial_duration == PartialDuration(remaining, duration)
         left == IF remaining > 0 THEN duration - partial_duration
                 ELSE duration
     IN /\ time_blocks' =
             IF remaining > 0
               THEN [time_blocks EXCEPT
                       ![b] = AddTask(@, PartialTask(task, partial_duration),
                                      partial_duration)]
               ELSE time_blocks
        /\ duration' = left
        /\ IF BreakScan(remaining, left) \/ scan = 3
             THEN /\ pc' = "place"
                  /\ task_idx' = task_idx + 1
                  /\ scan' = 0
             ELSE /\ pc' = "split"
                  /\ task_idx' = task_idx
                  /\ scan' = scan + 1
  /\ UNCHANGED <<preferences, tasks, remaining_time, sorted_tasks,
                 schedule, fixed_schedule>>

\* lines 110-163: the unsorted schedule
BuildSchedule ==
  /\ pc = "place"
  /\ task_idx > Len(sorted_tasks)
  /\ fixed_schedule' = FixedSchedule(preferences)
  /\ schedule' = Assemble(FixedSchedule(preferences), time_blocks)
  /\ pc' = "sort"
  /\ UNCHANGED <<preferences, tasks, remaining_time, time_blocks,
                 sorted_tasks, task_idx, duration, scan>>

\* lines 166-168
SortAndReturn ==
  /\ pc = "sort"
  /\ IF SortRaises(schedule)
       THEN /\ pc' = "ValueError"
            /\ schedule' = schedule
       ELSE /\ pc' = "done"
            /\ schedule' = SortSchedule(schedule)
  /\ UNCHANGED <<preferences, tasks, remaining_time, time_blocks,
                 sorted_tasks, task_idx, duration, scan, fixed_schedule>>

Next ==
  \/ CalculateRemainingTime
  \/ BeginAllocate
  \/ PlaceWhole
  \/ BeginSplit
  \/ SplitStep
  \/ BuildSchedule
  \/ SortAndReturn

Spec == Init /\ [][Next]_vars

(***************************************************************************)
(* Vocabulary of the properties.                                           *)
(***************************************************************************)
Max(a, b) == IF a >= b THEN a ELSE b

Minutes(time_str) == time_to_minutes(parse_time(time_str))

BlocksBuilt == time_blocks # <<>>

Returned == pc = "done"

\* wake_up <= work_start <= work_end <= bedtime
ConsistentPreferences ==
  /\ Minutes(preferences.wake_up_time) <= Minutes(preferences.work_start)
  /\ Minutes(preferences.work_start) <= Minutes(preferences.work_end)
  /\ Minutes(preferences.work_end) <= Minutes(preferences.bedtime)

\* a zero-padded 24-hour HH:MM string
IsHHMM(s) ==
  /\ Len(s) = 5
  /\ s[3] = ":"
  /\ \A k \in {1, 2, 4, 5} : s[k] \in {"0","1","2","3","4","5","6","7","8","9"}
  /\ 10 * DigitVal(s[1]) + DigitVal(s[2]) <= 23
  /\ 10 * DigitVal(s[4]) + DigitVal(s[5]) <= 59

RECURSIVE SumOf(_, _)
\* sum of f[k] over the set S of indices
SumOf(f, S) ==
  IF S = {} THEN 0
  ELSE LET k == CHOOSE x \in S : TRUE IN f[k] + SumOf(f, S \ {k})

\* minutes of the entries of the list es (records with id and duration) that
\* carry the id
MinutesOf(es, id) ==
  SumOf([k \in 1..Len(es) |-> es[k].duration],
        {k \in 1..Len(es) : es[k].id = id})

\* minutes of the task with this id placed in the three blocks
PlacedMinutes(id) ==
  MinutesOf(time_blocks[1].tasks, id) + MinutesOf(time_blocks[2].tasks, id)
    + MinutesOf(time_blocks[3].tasks, id)

\* a fragment label: a description followed by " (Part 1)"
IsFragmentOf(label, description) ==
  label = description \o <<" ", "(", "P", "a", "r", "t", " ", "1", ")">>

(***************************************************************************)
(* C1: in every state of the allocation, each block has                    *)
(* 0 <= used <= max(available, 0), used is the sum of the durations of the *)
(* block's task list, and a block whose available is zero or negative      *)
(* holds no task or fragment.                                              *)
(***************************************************************************)
C1_CapacityBound ==
  BlocksBuilt =>
    \A b \in 1..3 :
      LET block == time_blocks[b]
      IN /\ 0 <= block.used
         /\ block.used <= Max(block.available, 0)
         /\ block.used = SumOf([k \in 1..Len(block.tasks) |->
                                  block.tasks[k].duration],
                               1..Len(block.tasks))
         /\ (block.available <= 0 => block.tasks = <<>>)

\* work_start < wake_up: the morning block has negative capacity, a fragment
\* has filled another block up and a task was dropped for want of room
C1_Witness ==
  /\ Returned
  /\ time_blocks[1].available < 0
  /\ \E b \in 2..3 :
       /\ time_blocks[b].used = time_blocks[b].available
       /\ \E k \in 1..Len(time_blocks[b].tasks) :
            time_blocks[b].tasks[k].duration
              < tasks[time_blocks[b].tasks[k].id].duration
  /\ \E t \in 1..Len(sorted_tasks) : PlacedMinutes(sorted_tasks[t].id) = 0

(***************************************************************************)
(* C2: with consistent preferences, when the durations of the incomplete   *)
(* tasks sum to at most bedtime - wake_up, the entries of the returned     *)
(* schedule that carry an incomplete task's id have durations summing to   *)
(* exactly that task's duration.                                           *)
(***************************************************************************)
IncompleteIds == {k \in 1..Len(tasks) : ~tasks[k].completed}

TotalDemand == SumOf([k \in 1..Len(tasks) |-> tasks[k].duration], IncompleteIds)

TotalCapacity == Minutes(preferences.bedtime) - Minutes(preferences.wake_up_time)

C2_Conservation ==
  (Returned /\ ConsistentPreferences /\ TotalDemand <= TotalCapacity) =>
    \A k \in IncompleteIds : MinutesOf(schedule, tasks[k].id) = tasks[k].duration

\* the case happens with a task split over several entries and a second task
C2_Witness ==
  /\ Returned /\ ConsistentPreferences /\ TotalDemand <= TotalCapacity
  /\ Cardinality(IncompleteIds) >= 2
  /\ \E k \in IncompleteIds :
       Cardinality({e \in 1..Len(schedule) : schedule[e].id = tasks[k].id}) >= 2

(***************************************************************************)
(* C3: calculate_remaining_time returns a well-formed zero-padded 24-hour  *)
(* HH:MM string for every preference record of four valid clock times,     *)
(* also when work_end is later than bedtime.                               *)
(***************************************************************************)
C3_RemainingTimeWellFormed ==
  pc # "index" => IsHHMM(remaining_time)

(***************************************************************************)
(* C4: the returned schedule is in ascending order of clock time; entries  *)
(* of equal clock time keep the order in which they were appended, so a    *)
(* fixed entry (id -1..-4) comes before every task entry of the same clock *)
(* time; with consistent preferences the first task of a non-empty morning *)
(* block comes immediately after "Wake Up".                                *)
(***************************************************************************)
ClockTimesOf(es) == {Minutes(es[k].time) : k \in 1..Len(es)}

\* the entries of es whose clock time is t, in the order of es
AtClockTime(es, t) ==
  LET Here(e) == Minutes(e.time) = t IN SelectSeq(es, Here)

Ascending(es) ==
  \A i, j \in 1..Len(es) : i < j => Minutes(es[i].time) <= Minutes(es[j].time)

FixedBeforeTasks(es) ==
  \A i, j \in 1..Len(es) :
    (i < j /\ Minutes(es[i].time) = Minutes(es[j].time) /\ es[j].id < 0)
      => es[i].id < 0

WakeUpThenFirstMorningTask(es) ==
  (ConsistentPreferences /\ time_blocks[1].tasks # <<>>) =>
    /\ es[1].id = -1
    /\ es[2].id = time_blocks[1].tasks[1].id
    /\ es[2].time = es[1].time

C4_StableAscendingSchedule ==
  [][(pc = "sort" /\ pc' = "done") =>
       /\ Len(schedule') = Len(schedule)
       /\ Ascending(schedule')
       /\ \A t \in ClockTimesOf(schedule) :
            AtClockTime(schedule', t) = AtClockTime(schedule, t)
       /\ FixedBeforeTasks(schedule')
       /\ WakeUpThenFirstMorningTask(schedule')]_vars

\* two fixed entries and two entries of different blocks share a clock time,
\* and an entry appended earlier has a later clock time
C4_Witness ==
  /\ Returned
  /\ \E i \in 1..(Len(schedule) - 3) :
       /\ schedule[i].id < 0 /\ schedule[i + 1].id < 0
       /\ schedule[i + 2].id > 0 /\ schedule[i + 3].id > 0
       /\ \A d \in 1..3 : schedule[i + d].time = schedule[i].time
  /\ schedule # Assemble(fixed_schedule, time_blocks)

(***************************************************************************)
(* C5: when an incomplete task is processed and some block has remaining   *)
(* capacity >= its full duration, the task is placed unsplit, exactly      *)
(* once, in the first such block of the scan order morning, evening, work; *)
(* no fragment is created for it.                                          *)
(***************************************************************************)
\* the block the claim names for a task of duration d: 1 morning, 3 evening,
\* 2 work
PreferredBlock(d) ==
  IF time_blocks[1].available - time_blocks[1].used >= d THEN 1
  ELSE IF time_blocks[3].available - time_blocks[3].used >= d THEN 3
  ELSE 2

C5_WholePlacementFirstFit ==
  [][( /\ pc = "place"
       /\ task_idx <= Len(sorted_tasks)
       /\ \E b \in 1..3 :
            time_blocks[b].available - time_blocks[b].used
              >= sorted_tasks[task_idx].duration )
     => LET task == sorted_tasks[task_idx]
            chosen == PreferredBlock(task.duration)
        IN /\ time_blocks'[chosen].tasks =
                Append(time_blocks[chosen].tasks, task)
           /\ time_blocks'[chosen].used =
                time_blocks[chosen].used + task.duration
           /\ \A b \in (1..3) \ {chosen} : time_blocks'[b] = time_blocks[b]
           /\ task.description = tasks[task.id].description
           /\ task.duration = tasks[task.id].duration
           /\ task_idx' = task_idx + 1
           /\ pc' = "place"]_vars

\* the morning block took a first task whole and could not take the next,
\* which went whole to the evening block although the work block, still
\* empty, could have held it
C5_Witness ==
  /\ Returned
  /\ Len(time_blocks[1].tasks) = 1
  /\ time_blocks[1].tasks[1] = tasks[time_blocks[1].tasks[1].id]
  /\ Len(time_blocks[3].tasks) = 1
  /\ time_blocks[3].tasks[1] = tasks[time_blocks[3].tasks[1].id]
  /\ time_blocks[2].tasks = <<>>
  /\ time_blocks[2].available >= time_blocks[3].tasks[1].duration

(***************************************************************************)
(* C6: a task no block holds whole is split over the scan morning,         *)
(* evening, work.  Each block reached with duration still outstanding and  *)
(* with strictly positive remaining capacity receives exactly one          *)
(* fragment, of min(remaining capacity, outstanding duration) minutes and  *)
(* labelled description + " (Part 1)"; no other block receives one; every  *)
(* block with a non-final fragment is left exactly full; the fragments sum *)
(* to min(task duration, total remaining capacity), a block of negative    *)
(* remaining capacity counting as zero.                                    *)
(***************************************************************************)
\* positions in block b of the list bs that carry the task's id
FragmentsIn(bs, b, task) ==
  {k \in 1..Len(bs[b].tasks) : bs[b].tasks[k].id = task.id}

FragmentMinutes(bs, b, task) == MinutesOf(bs[b].tasks, task.id)

\* remaining capacity of block b before the task's fragments went in
RemainingBefore(bs, b, task) ==
  bs[b].available - (bs[b].used - FragmentMinutes(bs, b, task))

\* duration outstanding when the scan reaches its position s
Outstanding(bs, s, task) ==
  task.duration
    - SumOf([l \in 1..3 |-> FragmentMinutes(bs, ScanOrder[l], task)],
            1..(s - 1))

\* the fragment the block at scan position s is due, 0 for none
DueAt(bs, s, task) ==
  LET before == RemainingBefore(bs, ScanOrder[s], task)
      out == Outstanding(bs, s, task)
  IN IF before > 0 /\ out > 0
       THEN (IF before <= out THEN before ELSE out)
       ELSE 0

FragmentsAsDue(bs, task) ==
  \A s \in 1..3 :
    LET b == ScanOrder[s]
        due == DueAt(bs, s, task)
        frags == FragmentsIn(bs, b, task)
    IN /\ Cardinality(frags) = (IF due > 0 THEN 1 ELSE 0)
       /\ \A k \in frags :
            /\ k = Len(bs[b].tasks)
            /\ bs[b].tasks[k].duration = due
            /\ IsFragmentOf(bs[b].tasks[k].description, task.description)
            /\ (Outstanding(bs, s, task) > due => bs[b].used = bs[b].available)

AllFragmentMinutes(bs, task) ==
  SumOf([b \in 1..3 |-> FragmentMinutes(bs, b, task)], 1..3)

SplitCompletes == pc = "split" /\ pc' = "place"

C6_SplitFragments ==
  [][SplitCompletes =>
       LET task == sorted_tasks[task_idx]
           bs == time_blocks'
           room == SumOf([b \in 1..3 |->
                            Max(RemainingBefore(bs, b, task), 0)], 1..3)
       IN /\ \A b \in 1..3 : RemainingBefore(bs, b, task) < task.duration
          /\ FragmentsAsDue(bs, task)
          /\ AllFragmentMinutes(bs, task)
               = (IF task.duration <= room THEN task.duration ELSE room)]_vars

\* the claim as written: the fragments sum to min(task duration, total
\* remaining capacity of all blocks), the remaining capacities summed as
\* they are
C6_FragmentsSumToTotalRemaining ==
  [][SplitCompletes =>
       LET task == sorted_tasks[task_idx]
           bs == time_blocks'
           room == SumOf([b \in 1..3 |-> RemainingBefore(bs, b, task)], 1..3)
       IN /\ FragmentsAsDue(bs, task)
          /\ AllFragmentMinutes(bs, task)
               = (IF task.duration <= room THEN task.duration ELSE room)]_vars

\* a task split into three fragments, one per block, the last one not
\* filling its block
C6_Witness ==
  /\ Returned
  /\ \E t \in 1..Len(sorted_tasks) :
       /\ \A b \in 1..3 :
            Cardinality(FragmentsIn(time_blocks, b, sorted_tasks[t])) = 1
       /\ AllFragmentMinutes(time_blocks, sorted_tasks[t])
            = sorted_tasks[t].duration
       /\ time_blocks[1].used = time_blocks[1].available
       /\ time_blocks[3].used = time_blocks[3].available
       /\ time_blocks[2].used < time_blocks[2].available

(***************************************************************************)
(* Where the entries of a block lie in the day and in the schedule.        *)
(***************************************************************************)
\* minute of the day at which the k-th entry of the block starts
StartMinute(block, k) ==
  block.start.hour * 60 + block.start.minute
    + SumOf([l \in 1..Len(block.tasks) |-> block.tasks[l].duration],
            1..(k - 1))

\* the schedule entry e is the k-th entry of the block
IsEntryOf(e, block, k) ==
  /\ e.id = block.tasks[k].id
  /\ e.task = block.tasks[k].description
  /\ e.priority = block.tasks[k].priority
  /\ e.duration = block.tasks[k].duration
  /\ Minutes(e.time) = StartMinute(block, k)

RECURSIVE InScheduleOrder(_, _, _)
\* the entries k, k+1, ... of the block occur in the schedule, in this
\* order, at positions from the given one on
InScheduleOrder(block, k, from) ==
  IF k > Len(block.tasks) THEN TRUE
  ELSE \E p \in from..Len(schedule) :
         /\ IsEntryOf(schedule[p], block, k)
         /\ InScheduleOrder(block, k + 1, p + 1)

Assembled == pc \in {"sort", "done"}

TaskEntries == {p \in 1..Len(schedule) : schedule[p].id > 0}

(***************************************************************************)
(* C7: the entries of any one block are in the order the tasks were        *)
(* processed, by non-decreasing priority rank (Critical, High, Medium,     *)
(* Low) and, for equal priority, in the order of the input task list; and  *)
(* they appear in the returned schedule in that order.                     *)
(***************************************************************************)
Rank(p) == CASE p = "Critical" -> 0 [] p = "High" -> 1
             [] p = "Medium" -> 2 [] p = "Low" -> 3

\* ids are the positions in the input task list
ProcessedBefore(a, b) ==
  \/ Rank(a.priority) < Rank(b.priority)
  \/ Rank(a.priority) = Rank(b.priority) /\ a.id < b.id

C7_BlockOrderByPriorityStable ==
  BlocksBuilt =>
    \A b \in 1..3 :
      /\ \A i, j \in 1..Len(time_blocks[b].tasks) :
           i < j => ProcessedBefore(time_blocks[b].tasks[i],
                                    time_blocks[b].tasks[j])
      /\ Returned => InScheduleOrder(time_blocks[b], 1, 1)

\* two whole tasks of equal priority share a block and follow each other in
\* the schedule in input order
C7_Witness ==
  /\ Returned
  /\ \E b \in 1..3 :
       /\ Len(time_blocks[b].tasks) = 2
       /\ time_blocks[b].tasks[1] = tasks[1]
       /\ time_blocks[b].tasks[2] = tasks[2]
       /\ tasks[1].priority = tasks[2].priority
  /\ \E p \in 1..(Len(schedule) - 1) :
       schedule[p].id = 1 /\ schedule[p + 1].id = 2

(***************************************************************************)
(* C8: allocate_time_slots does not fail, for consistent or inconsistent   *)
(* preferences: every task or fragment entry starts at a minute in         *)
(* [0, 1440), at or after the start and before the end of a block with     *)
(* positive available; every entry's time string is a well-formed HH:MM    *)
(* value and the final sort raises no format error.                        *)
(***************************************************************************)
C8_NoFormatError ==
  /\ pc # "ValueError"
  /\ BlocksBuilt =>
       \A b \in 1..3 : \A k \in 1..Len(time_blocks[b].tasks) :
         LET block == time_blocks[b]
             start == StartMinute(block, k)
         IN /\ block.available > 0
            /\ 0 <= start /\ start < 1440
            /\ block.start.hour * 60 + block.start.minute <= start
            /\ start < block.end.hour * 60 + block.end.minute
  /\ Assembled =>
       /\ \A p \in 1..Len(schedule) : IsHHMM(schedule[p].time)
       /\ \A p \in TaskEntries :
            \E b \in 1..3 : \E k \in 1..Len(time_blocks[b].tasks) :
              IsEntryOf(schedule[p], time_blocks[b], k)

\* inconsistent preferences: a block of negative length, entries in the two
\* others
C8_Witness ==
  /\ Returned
  /\ ~ConsistentPreferences
  /\ \E b \in 1..3 : time_blocks[b].available < 0
  /\ Cardinality({b \in 1..3 : time_blocks[b].tasks # <<>>}) = 2

(***************************************************************************)
(* C9: a processed task has minutes left unplaced only when no block has   *)
(* positive remaining capacity, and every task processed after it has no   *)
(* entry at all, in the blocks or in the schedule.                         *)
(***************************************************************************)
\* positions in sorted_tasks of the tasks whose processing is over
Processed == 1..(task_idx - 1)

Truncated(t) ==
  PlacedMinutes(sorted_tasks[t].id) < sorted_tasks[t].duration

HasNoEntry(t) ==
  /\ \A b \in 1..3 : FragmentsIn(time_blocks, b, sorted_tasks[t]) = {}
  /\ \A p \in 1..Len(schedule) : schedule[p].id # sorted_tasks[t].id

C9_OverflowDropsTail ==
  BlocksBuilt =>
    \A t \in Processed :
      Truncated(t) =>
        /\ \A b \in 1..3 : time_blocks[b].used >= time_blocks[b].available
        /\ \A u \in Processed : u > t => HasNoEntry(u)

\* a task lost part of its minutes and the task after it has no entry
C9_Witness ==
  /\ Returned
  /\ \E t \in Processed :
       /\ Truncated(t)
       /\ PlacedMinutes(sorted_tasks[t].id) > 0
       /\ t < Len(sorted_tasks)
       /\ HasNoEntry(t + 1)

(***************************************************************************)
(* C10: with consistent preferences the intervals [time, time + duration)  *)
(* of the task and fragment entries of the schedule are pairwise disjoint, *)
(* and each entry lies inside [start, end) of the block it was placed in.  *)
(***************************************************************************)
C10_NoDoubleBooking ==
  (Assembled /\ ConsistentPreferences) =>
    /\ \A p, q \in TaskEntries :
         p # q =>
           \/ Minutes(schedule[p].time) + schedule[p].duration
                <= Minutes(schedule[q].time)
           \/ Minutes(schedule[q].time) + schedule[q].duration
                <= Minutes(schedule[p].time)
    /\ \A p \in TaskEntries :
         \E b \in 1..3 : \E k \in 1..Len(time_blocks[b].tasks) :
           /\ IsEntryOf(schedule[p], time_blocks[b], k)
           /\ Minutes(schedule[p].time)
                >= time_blocks[b].start.hour * 60 + time_blocks[b].start.minute
           /\ Minutes(schedule[p].time) + schedule[p].duration
                <= time_blocks[b].end.hour * 60 + time_blocks[b].end.minute
    /\ Cardinality(TaskEntries)
         = Len(time_blocks[1].tasks) + Len(time_blocks[2].tasks)
             + Len(time_blocks[3].tasks)

\* two entries back to back in one block and entries in another block
C10_Witness ==
  /\ Returned
  /\ ConsistentPreferences
  /\ \E b \in 1..3 : Len(time_blocks[b].tasks) >= 2
  /\ Cardinality({b \in 1..3 : time_blocks[b].tasks # <<>>}) >= 2

====
